---- MODULE Spec2Model ----
(***************************************************************************)
(* Model of the personal-vault kernel: the EventBus (publish/subscribe     *)
(* router), the ModuleLoader and the module registry of VaultCore.         *)
(*                                                                         *)
(* JavaScript runs every function to its next `await` without              *)
(* interruption.  Each action below is one such run: it starts at a call   *)
(* from outside or at the resumption of an awaited promise and ends at the *)
(* next suspension point or at the function's return.                      *)
(*                                                                         *)
(* Strings that are matched character by character (event types and        *)
(* subscription patterns) are tuples of one-character strings.             *)
(***************************************************************************)
EXTENDS Integers, Sequences, FiniteSets, TLC

(***************************************************************************)
(* Bounds of the model.                                                    *)
(***************************************************************************)
\* number of on(), off() and emit() calls issued from outside in a behaviour
MaxCalls == 4
\* number of loadModule() and unloadModule() calls issued from outside in a behaviour
MaxLoaderCalls == 3
\* number of emit() calls in a behaviour that fills the history
MaxEmissions == 102
\* number of registerModule(), unregisterModule() and emit() calls issued from
\* outside in a behaviour of the core
MaxCoreCalls == 3
\* number of on(), off() and emit() calls issued from outside on a bus that
\* holds one-time listeners
MaxOnceCalls == 4
\* number of show, hide, closeAll and destroy calls made on the modal system
MaxModalCalls == 4
\* number of addNote, updateNote and deleteNote calls made on the core
MaxNoteCalls == 2

(***************************************************************************)
(* Event types, patterns and callbacks.                                    *)
(***************************************************************************)
\* the event type "x"
TX == <<"x">>
\* the event type 'system:error'
SystemError == <<"s", "y", "s", "t", "e", "m", ":", "e", "r", "r", "o", "r">>
\* the wildcard pattern '*'
Star == <<"*">>
\* the wildcard pattern 'system:*'
SysStar == <<"s", "y", "s", "t", "e", "m", ":", "*">>

\* the event types 'core:module-registered' and 'core:module-unregistered'
ModuleRegistered ==
    <<"c", "o", "r", "e", ":", "m", "o", "d", "u", "l", "e", "-",
      "r", "e", "g", "i", "s", "t", "e", "r", "e", "d">>
ModuleUnregistered ==
    <<"c", "o", "r", "e", ":", "m", "o", "d", "u", "l", "e", "-",
      "u", "n", "r", "e", "g", "i", "s", "t", "e", "r", "e", "d">>

\* the number 42 given as event type; it is no string, and String(42) is "42"
Number42 == <<"number:42">>

\* the events of the modal system
ModalShow == <<"modal:show">>
ModalHide == <<"modal:hide">>
ModalUpdate == <<"modal:update">>
ModalShown == <<"modal:shown">>
ModalHidden == <<"modal:hidden">>

\* the events of the core's note operations
NotePreAdd == <<"note:pre-add">>
NoteAdded == <<"note:added">>
NoteAddFailed == <<"note:add-failed">>
NotePreUpdate == <<"note:pre-update">>
NoteUpdated == <<"note:updated">>
NoteUpdateFailed == <<"note:update-failed">>
NoteAccessed == <<"note:accessed">>
NotePreDelete == <<"note:pre-delete">>
NoteDeleted == <<"note:deleted">>

EventTypes ==
    {TX, SystemError, ModuleRegistered, ModuleUnregistered, Number42,
     ModalShow, ModalHide, ModalUpdate, ModalShown, ModalHidden,
     NotePreAdd, NoteAdded, NoteAddFailed, NotePreUpdate, NoteUpdated, NoteUpdateFailed,
     NoteAccessed, NotePreDelete, NoteDeleted}
\* the types emitted from outside the bus
Emitted == {TX}
ExactPatterns == {TX}
WildPatterns == {Star, SysStar}
Priorities == {0, 1}

\* callbacks handed to on(): "f" returns normally, "g" throws (or returns a
\* promise that rejects)
Callbacks == {"f", "g"}
Throws(cb) == cb = "g"

\* the module names, and the built-in dependency name that is never loaded
Names == {"A", "B"}
Core == "core"

VARIABLES
    events,             \* EventBus.events: exact pattern -> listener array (<<>>: no entry)
    wildcardListeners,  \* EventBus.wildcardListeners, in insertion order
    eventHistory,       \* EventBus.eventHistory: ids of the retained envelopes
    totalEvents,        \* EventBus.stats.totalEvents
    totalListeners,     \* EventBus.stats.totalListeners
    em,                 \* the emit() invocations, by event id
    subs,               \* every listener ever registered, by listener id
    unsubscribed,       \* the listeners whose pattern and callback off() was called with
    calls,              \* number of calls issued from outside so far
    classes,            \* the module class that the module file of each name defines
    moduleCache,        \* ModuleLoader.moduleCache: the names whose class is cached
    loadedModules,      \* ModuleLoader.loadedModules: name -> instance (0: no entry)
    loadingPromises,    \* ModuleLoader.loadingPromises: name -> _doLoadModule call (0: no entry)
    modules,            \* VaultCore.modules: name -> instance (0: no entry)
    moduleOrder,        \* the keys of VaultCore.modules in insertion order
    apis,               \* VaultCore.apis: name -> instance whose API it is (0: no entry)
    inst,               \* the module instances created, by instance id
    tasks,              \* the calls of the loader's async functions, by call id
    activeModals,       \* ModalSystem.activeModals: the entries in insertion order
    modalCount,         \* ModalSystem.modalCount
    elements,           \* the modal elements created, by element number
    frames,             \* the pending requestAnimationFrame callbacks, in request order
    timers,             \* the pending setTimeout callbacks of hideModal, in request order
    styles,             \* is there a <style id="modal-system-styles"> in the document
    noteCalls,          \* the calls of the core's note operations, by call id
    localStorage        \* the notes stored under keys.notes: note id -> note

busVars == <<events, wildcardListeners, eventHistory, totalEvents, totalListeners,
             em, subs, unsubscribed>>
loaderVars == <<classes, moduleCache, loadedModules, loadingPromises, modules,
                moduleOrder, apis, inst, tasks>>

modalVars == <<activeModals, modalCount, elements, frames, timers, styles>>
noteVars == <<noteCalls, localStorage>>
appVars == <<modalVars, noteVars>>

vars == <<busVars, loaderVars, calls, appVars>>

maxHistorySize == 100

(***************************************************************************)
(* Pure helpers.                                                           *)
(***************************************************************************)
\* eventType.includes('*')
IsWildcard(p) == \E i \in 1..Len(p) : p[i] = "*"

\* typeof eventType === 'string'
IsString(eventType) == eventType # Number42

\* String(eventType), the conversion RegExp.prototype.test applies to its argument
StringOf(eventType) == IF eventType = Number42 THEN <<"4", "2">> ELSE eventType

\* does the text match the pattern, in which '*' stands for any characters
RECURSIVE Matches(_, _)
Matches(text, pattern) ==
    IF pattern = <<>> THEN text = <<>>
    ELSE IF Head(pattern) = "*"
    THEN \/ Matches(text, Tail(pattern))
         \/ /\ text # <<>>
            /\ Matches(Tail(text), pattern)
    ELSE /\ text # <<>>
         /\ Head(text) = Head(pattern)
         /\ Matches(Tail(text), Tail(pattern))

\* new RegExp('^' + pattern.replace(/\*/g, '.*') + '$').test(eventType)
matchesWildcard(eventType, pattern) == Matches(StringOf(eventType), pattern)

\* listeners.findIndex(l => l.config.priority < config.priority), then push or splice
InsertIndex(listeners, priority) ==
    IF \E i \in 1..Len(listeners) : listeners[i].priority < priority
    THEN CHOOSE i \in 1..Len(listeners) :
            /\ listeners[i].priority < priority
            /\ \A j \in 1..(i - 1) : listeners[j].priority >= priority
    ELSE Len(listeners) + 1

InsertAt(listeners, i, l) ==
    SubSeq(listeners, 1, i - 1) \o <<l>> \o SubSeq(listeners, i, Len(listeners))

InsertListener(listeners, l) == InsertAt(listeners, InsertIndex(listeners, l.priority), l)

Ids(listeners) == <<>> \o [i \in 1..Len(listeners) |-> listeners[i].id]

Matching(ws, eventType) ==
    SelectSeq(ws, LAMBDA w : matchesWildcard(eventType, w.pattern))

NoData == [kind |-> "none", originalEvent |-> <<>>, errors |-> <<>>, eventId |-> 0,
           name |-> ""]

(***************************************************************************)
(* The bus as one value, so that calls can be composed inside an action.   *)
(***************************************************************************)
BusState ==
    [events |-> events, wild |-> wildcardListeners, history |-> eventHistory,
     totalEvents |-> totalEvents, totalListeners |-> totalListeners,
     em |-> em, subs |-> subs, unsubscribed |-> unsubscribed,
     modules |-> modules, order |-> moduleOrder]

InFlight(E) == E.pc # "done"

\* the emission's `listeners` array is replaced in the map: the emissions
\* that iterate the old array no longer see changes of the live one
Detach(ems, eventType) ==
    <<>> \o [e \in 1..Len(ems) |->
                IF ems[e].type = eventType THEN [ems[e] EXCEPT !.live = FALSE] ELSE ems[e]]

\* lines 212-220: remove the one-time listeners collected by this emission
Remaining(E) == SelectSeq(E.listeners, LAMBDA l : l.id \notin E.toRemove)

RemoveOnce(B, e) ==
    IF B.em[e].toRemove = {} THEN B
    ELSE [B EXCEPT !.events[B.em[e].type] = Remaining(B.em[e]),
                   !.em = Detach(B.em, B.em[e].type)]

\* the recursion guard of line 258 left out
EmitsDiagnosticUnguarded(E) == Len(E.errors) > 0

\* lines 255-266: is the diagnostic event emitted
ShouldEmitDiagnostic(E) ==
    /\ Len(E.errors) > 0
    /\ E.type # SystemError

NewEmission(B, eventType, data) ==
    [type |-> eventType, data |-> data, pc |-> "exact",
     listeners |-> B.events[eventType], live |-> B.events[eventType] # <<>>,
     idx |-> 0, cur |-> 0, toRemove |-> {},
     wl |-> <<>>, wlive |-> FALSE, widx |-> 0,
     results |-> <<>>, errors |-> <<>>, status |-> "pending",
     log |-> <<>>, handled |-> <<>>, offered |-> {}, gone |-> B.unsubscribed,
     known |-> Len(B.subs),
     snapshot |-> Ids(B.events[eventType]) \o Ids(Matching(B.wild, eventType)),
     sawOn |-> FALSE, sawOff |-> FALSE]

\* the oldest envelope dropped as soon as the buffer is full
ShiftWhenFull(history) == IF Len(history) >= maxHistorySize THEN Tail(history) ELSE history

\* lines 157-183: the envelope, the history and the counters
Shift(history) == IF Len(history) > maxHistorySize THEN Tail(history) ELSE history

Record(B, eventType, data) ==
    [B EXCEPT !.history = Shift(Append(@, Len(B.em) + 1)),
              !.totalEvents = @ + 1,
              !.em = Append(@, NewEmission(B, eventType, data))]

\* executeListener, line 304: callback(eventData.data, eventData)
ListenerArguments(E, e) ==
    <<[kind |-> "payload", value |-> E.data], [kind |-> "envelope", value |-> e]>>

\* the registered modules that have a handleEvent function, in the order of
\* the Map
Handlers(B) == SelectSeq(B.order, LAMBDA n : n \in classes.handles)

\* module.handleEvent(eventType, data) as the listener for '*' calls it, with
\* the listener's own two arguments
HandleEventCall(B, name, arguments, caught) ==
    [module |-> B.modules[name], first |-> arguments[1], second |-> arguments[2],
     threw |-> name \in classes.handleThrows, caught |-> caught]

\* the calls up to the first handleEvent that throws, none of them in a try/catch
RECURSIVE CallsUntilThrow(_, _, _)
CallsUntilThrow(B, names, arguments) ==
    IF names = <<>> THEN <<>>
    ELSE IF Head(names) \in classes.handleThrows
    THEN <<HandleEventCall(B, Head(names), arguments, FALSE)>>
    ELSE <<HandleEventCall(B, Head(names), arguments, FALSE)>>
            \o CallsUntilThrow(B, Tail(names), arguments)

\* the loop without the try/catch of lines 555-559
HandleEventCallsUnguarded(B, arguments) == CallsUntilThrow(B, Handlers(B), arguments)

\* part_000 lines 551-562: the listener for '*' hands its two arguments to
\* handleEvent of every registered module that has one, each call in its own
\* try/catch
HandleEventCalls(B, arguments) ==
    <<>> \o [i \in 1..Len(Handlers(B)) |->
                HandleEventCall(B, Handlers(B)[i], arguments, TRUE)]

\* the instances in the registry that have a handleEvent function
Offered(B) == {B.modules[n] : n \in {k \in Names : B.modules[k] # 0 /\ k \in classes.handles}}

\* line 191 / line 226: call the next listener and await its result
Invoke(B, e, l) ==
    [B EXCEPT !.em[e].cur = l,
              !.em[e].log = Append(@, l.id),
              !.em[e].handled =
                    IF l.cb = "forward"
                    THEN @ \o HandleEventCalls(B, ListenerArguments(B.em[e], e))
                    ELSE @,
              !.em[e].offered = IF l.cb = "forward" THEN Offered(B) ELSE @]

\* line 222: the loop over this.wildcardListeners starts
EnterWildcards(B, e) ==
    [B EXCEPT !.em[e].pc = "wild",
              !.em[e].wl = B.wild,
              !.em[e].wlive = TRUE,
              !.em[e].widx = 0]

\* line 288: return results
Return(B, e) ==
    [B EXCEPT !.em[e].pc = "done",
              !.em[e].cur = 0,
              !.em[e].status = "resolved"]

\* lines 259-264: the payload of the diagnostic event
Diagnostic(E, e) ==
    [kind |-> "listener", originalEvent |-> E.type, errors |-> E.errors, eventId |-> e,
     name |-> ""]

\* emit() from its current position to its next await, or to its return.
\* Begin is the call emit(eventType, data).
RECURSIVE Proceed(_, _)
Begin(B, eventType, data) == Proceed(Record(B, eventType, data), Len(B.em) + 1)

Proceed(B, e) ==
    IF B.em[e].pc = "done" THEN B
    ELSE IF B.em[e].pc = "exact"
    THEN IF B.em[e].idx < Len(B.em[e].listeners)
         THEN Invoke([B EXCEPT !.em[e].idx = @ + 1], e,
                     B.em[e].listeners[B.em[e].idx + 1])
         ELSE Proceed(EnterWildcards(RemoveOnce(B, e), e), e)
    ELSE IF B.em[e].widx < Len(B.em[e].wl)
         THEN IF matchesWildcard(B.em[e].type, B.em[e].wl[B.em[e].widx + 1].pattern)
              THEN Invoke([B EXCEPT !.em[e].widx = @ + 1], e,
                          B.em[e].wl[B.em[e].widx + 1])
              ELSE Proceed([B EXCEPT !.em[e].widx = @ + 1], e)
         ELSE IF ShouldEmitDiagnostic(B.em[e])
              THEN Begin(Return(B, e), SystemError, Diagnostic(B.em[e], e))
              ELSE Return(B, e)

\* executeListener throws or rejects: the callback does, which for the
\* listener for '*' of the core means that a handleEvent threw outside a
\* try/catch
ListenerFails(E) ==
    \/ Throws(E.cur.cb)
    \/ /\ E.cur.cb = "forward"
       /\ \E i \in 1..Len(E.handled) : E.handled[i].threw /\ ~E.handled[i].caught

\* the listener's error not caught at lines 198 and 228: it reaches the catch of
\* line 268, which throws it again
SettleUncaught(E) ==
    IF ListenerFails(E)
    THEN [E EXCEPT !.errors = Append(@, E.cur.id), !.pc = "done", !.status = "rejected"]
    ELSE IF E.pc = "exact" /\ E.cur.once
         THEN [E EXCEPT !.results = Append(@, E.cur.id),
                        !.toRemove = @ \cup {E.cur.id}]
         ELSE [E EXCEPT !.results = Append(@, E.cur.id)]

\* lines 191-209 and 226-235: the awaited listener has returned or thrown
Settle(E) ==
    IF ListenerFails(E)
    THEN [E EXCEPT !.errors = Append(@, E.cur.id)]
    ELSE IF E.pc = "exact" /\ E.cur.once
         THEN [E EXCEPT !.results = Append(@, E.cur.id),
                        !.toRemove = @ \cup {E.cur.id}]
         ELSE [E EXCEPT !.results = Append(@, E.cur.id)]

Resume(B, e) == Proceed([B EXCEPT !.em[e] = Settle(B.em[e])], e)

\* on(eventType, callback, options)
Subscribe(B, l) ==
    LET mark(E) == IF InFlight(E) /\ (IF IsWildcard(l.pattern)
                                      THEN matchesWildcard(E.type, l.pattern)
                                      ELSE E.type = l.pattern)
                   THEN [E EXCEPT !.sawOn = TRUE] ELSE E
        grow(E) == IF IsWildcard(l.pattern)
                   THEN IF E.pc = "wild" /\ E.wlive
                        THEN [E EXCEPT !.wl = Append(@, l)] ELSE E
                   ELSE IF E.pc = "exact" /\ E.live /\ E.type = l.pattern
                        THEN [E EXCEPT !.listeners = InsertListener(@, l)] ELSE E
    IN  [B EXCEPT !.wild = IF IsWildcard(l.pattern) THEN Append(@, l) ELSE @,
                  !.events = IF IsWildcard(l.pattern) THEN @
                             ELSE [@ EXCEPT ![l.pattern] = InsertListener(@, l)],
                  !.totalListeners = @ + 1,
                  !.subs = Append(@, l),
                  !.em = <<>> \o [e \in 1..Len(B.em) |-> grow(mark(B.em[e]))]]

\* off(eventType, callback)
Unsubscribe(B, pattern, cb) ==
    LET mark(E) == IF InFlight(E) /\ (IF IsWildcard(pattern)
                                      THEN matchesWildcard(E.type, pattern)
                                      ELSE E.type = pattern)
                   THEN [E EXCEPT !.sawOff = TRUE] ELSE E
        cut(E) == IF IsWildcard(pattern)
                  THEN [E EXCEPT !.wlive = FALSE]
                  ELSE IF E.type = pattern /\ B.events[pattern] # <<>>
                       THEN [E EXCEPT !.live = FALSE] ELSE E
    IN  [B EXCEPT !.wild = IF IsWildcard(pattern)
                           THEN SelectSeq(@, LAMBDA w : ~(w.pattern = pattern /\ w.cb = cb))
                           ELSE @,
                  !.events = IF IsWildcard(pattern) THEN @
                             ELSE [@ EXCEPT ![pattern] =
                                        SelectSeq(@, LAMBDA l : l.cb # cb)],
                  !.totalListeners = IF @ > 0 THEN @ - 1 ELSE 0,
                  !.unsubscribed = @ \cup {l \in 1..Len(B.subs) :
                                                B.subs[l].pattern = pattern
                                                /\ B.subs[l].cb = cb},
                  !.em = <<>> \o [e \in 1..Len(B.em) |-> cut(mark(B.em[e]))]]

SetBus(B) ==
    /\ events' = B.events
    /\ wildcardListeners' = B.wild
    /\ eventHistory' = B.history
    /\ totalEvents' = B.totalEvents
    /\ totalListeners' = B.totalListeners
    /\ em' = B.em
    /\ subs' = B.subs
    /\ unsubscribed' = B.unsubscribed

(***************************************************************************)
(* Module classes: what `new ModuleClass()` yields for each module name.   *)
(***************************************************************************)
NoDependencies == [n \in Names |-> <<>>]

\* the class MockModule of _getMockModule, for every name
MockClasses ==
    [dependencies |-> NoDependencies, initThrows |-> {}, invalid |-> {},
     apiThrows |-> {}, handles |-> Names, handleThrows |-> {}, destroyThrows |-> {},
     subscribes |-> {}]

DependencyGraphs ==
    {NoDependencies,
     ("A" :> <<Core, "B">>) @@ ("B" :> <<>>),
     ("A" :> <<"B">>) @@ ("B" :> <<"A">>),
     ("A" :> <<"A">>) @@ ("B" :> <<>>)}

\* dependencies: the declared dependency names; initThrows: the names whose
\* init() throws or rejects; invalid: the names whose instance lacks one of
\* name, version, init, getAPI; apiThrows: the names whose getAPI() throws;
\* handles: the names that have handleEvent; handleThrows: the names whose
\* handleEvent throws; destroyThrows: the names whose destroy() throws or
\* rejects; subscribes: the names whose init() subscribes a handler of the
\* module to "x" and whose destroy() calls off("x") without the handler, as
\* ModalSystem does
ModuleClasses ==
    {[MockClasses EXCEPT !.dependencies = d, !.initThrows = t, !.invalid = i] :
        d \in DependencyGraphs, t \in {{}, {"B"}}, i \in {{}, {"B"}}}

\* the classes handed to VaultCore.registerModule directly
CoreClasses ==
    {MockClasses,
     [MockClasses EXCEPT !.invalid = {"B"}],
     [MockClasses EXCEPT !.initThrows = {"B"}],
     [MockClasses EXCEPT !.apiThrows = {"A"}],
     [MockClasses EXCEPT !.handleThrows = {"A"}],
     [MockClasses EXCEPT !.handles = {"A"}],
     [MockClasses EXCEPT !.destroyThrows = {"A"}],
     [MockClasses EXCEPT !.subscribes = {"B"}]}

Dependencies(name) == classes.dependencies[name]

(***************************************************************************)
(* The loader and the core's registries as one value.                      *)
(***************************************************************************)
LoaderState ==
    [cache |-> moduleCache, loaded |-> loadedModules, loading |-> loadingPromises,
     modules |-> modules, order |-> moduleOrder, apis |-> apis, inst |-> inst,
     tasks |-> tasks, bus |-> BusState]

\* a call of an async function: its position, the call it awaits and its promise
NewTask(kind, name, pc) ==
    [kind |-> kind, name |-> name, pc |-> pc, status |-> "pending",
     wait |-> 0, dep |-> 0, inst |-> 0, value |-> 0, ok |-> FALSE, had |-> FALSE]

Resolve(S, t, v) ==
    [S EXCEPT !.tasks[t].pc = "done",
              !.tasks[t].status = "resolved",
              !.tasks[t].value = v]

Reject(S, t) ==
    [S EXCEPT !.tasks[t].pc = "done",
              !.tasks[t].status = "rejected"]

isModuleLoaded(S, name) == S.loaded[name] # 0

hasModule(S, name) == S.modules[name] # 0

\* loaded, initialized successfully and not unloaded
Active(S, name) == isModuleLoaded(S, name) /\ S.modules[name] = S.loaded[name]

DependenciesActive(S, name) ==
    \A k \in 1..Len(Dependencies(name)) :
        Dependencies(name)[k] = Core \/ Active(S, Dependencies(name)[k])

\* the check of lines 582-584 missing the loads whose module file has not
\* arrived yet
InFlightLoadCachedOnly(S, name) == IF name \in S.cache THEN S.loading[name] ELSE 0

\* lines 582-583: this.loadingPromises.get(moduleName)
InFlightLoad(S, name) == S.loading[name]

ModuleData(name) ==
    [kind |-> "module", originalEvent |-> <<>>, errors |-> <<>>, eventId |-> 0,
     name |-> name]

\* the key order of a Map after set(key, ...) and after delete(key)
MapSet(order, key) ==
    IF \E i \in 1..Len(order) : order[i] = key THEN order ELSE Append(order, key)

MapDelete(order, key) == SelectSeq(order, LAMBDA k : k # key)

\* line 626: new ModuleClass()
NewInstance(S, d) ==
    [S EXCEPT !.inst = Append(@, [name |-> S.tasks[d].name, inits |-> 0,
                                  destroys |-> 0, depsActive |-> TRUE,
                                  registered |-> FALSE]),
              !.tasks[d].inst = Len(S.inst) + 1]

\* line 726: await this.loadModule(dependency)
AwaitLoad(S, d, k, l) ==
    [S EXCEPT !.tasks[d].pc = "deps",
              !.tasks[d].dep = k,
              !.tasks[d].wait = l]

\* line 590: this.loadingPromises.set(moduleName, loadingPromise)
SetLoading(S, name, d) == [S EXCEPT !.loading[name] = d]

RECURSIVE loadModule(_, _), doLoadModule(_, _), Instantiate(_, _),
          loadDependencies(_, _, _)

\* loadModule(moduleName), from the call to its first await or to its return
loadModule(S, name) ==
    IF isModuleLoaded(S, name)
    THEN Resolve([S EXCEPT !.tasks = Append(@, NewTask("load", name, "done"))],
                 Len(S.tasks) + 1, S.loaded[name])
    ELSE IF InFlightLoad(S, name) # 0
    THEN [S EXCEPT !.tasks = Append(@, [NewTask("load", name, "other")
                                            EXCEPT !.wait = InFlightLoad(S, name)])]
    ELSE SetLoading(
            doLoadModule([S EXCEPT !.tasks = Append(@, [NewTask("load", name, "own")
                                                    EXCEPT !.wait = Len(S.tasks) + 2])],
                         name),
            name, Len(S.tasks) + 2)

\* _doLoadModule(moduleName), from the call to its first await
doLoadModule(S, name) ==
    IF name \in S.cache
    THEN Instantiate([S EXCEPT !.tasks = Append(@, NewTask("doLoad", name, "file"))],
                     Len(S.tasks) + 1)
    ELSE [S EXCEPT !.tasks = Append(@, NewTask("doLoad", name, "file"))]

\* lines 626-634: the instance, its validation, and the dependencies
Instantiate(S, d) ==
    IF S.tasks[d].name \in classes.invalid
    THEN Reject(NewInstance(S, d), d)
    ELSE loadDependencies(NewInstance(S, d), d, 1)

\* _loadDependencies(moduleInstance), from its k-th dependency on
loadDependencies(S, d, k) ==
    IF k > Len(Dependencies(S.tasks[d].name))
    THEN [S EXCEPT !.tasks[d].pc = "depsLoaded"]
    ELSE IF \/ Dependencies(S.tasks[d].name)[k] = Core
            \/ isModuleLoaded(S, Dependencies(S.tasks[d].name)[k])
    THEN loadDependencies(S, d, k + 1)
    ELSE AwaitLoad(loadModule(S, Dependencies(S.tasks[d].name)[k]), d, k,
                   Len(S.tasks) + 1)

\* lines 621-622: the module file has arrived
FileLoaded(S, d) == Instantiate([S EXCEPT !.cache = @ \cup {S.tasks[d].name}], d)

\* line 726: the awaited load of the dependency has settled
DependencyLoaded(S, d) ==
    IF S.tasks[S.tasks[d].wait].status = "rejected"
    THEN Reject(S, d)
    ELSE loadDependencies(S, d, S.tasks[d].dep + 1)

\* the handler that a module of this class subscribes, named after the class
Handler(name) == [pattern |-> TX, cb |-> name, once |-> FALSE, priority |-> 0]

\* what init() of the class does with the bus before it returns its promise
InitHook(S, name) ==
    IF name \in classes.subscribes
    THEN [S EXCEPT !.bus = Subscribe(@, [id |-> Len(S.bus.subs) + 1,
                                         pattern |-> Handler(name).pattern,
                                         cb |-> Handler(name).cb,
                                         once |-> Handler(name).once,
                                         priority |-> Handler(name).priority])]
    ELSE S

\* what destroy() of the class does with the bus: off(eventType) without the
\* callback, as ModalSystem.destroy does
DestroyHook(S, name) ==
    IF name \in classes.subscribes
    THEN [S EXCEPT !.bus = Unsubscribe(@, Handler(name).pattern, "undefined")]
    ELSE S

\* the call accepted without validateModuleInterface
registerModuleUnvalidated(S, d) ==
    IF hasModule(S, S.tasks[d].name)
    THEN [S EXCEPT !.tasks[d].pc = "registered", !.tasks[d].ok = FALSE,
                   !.tasks[d].had = TRUE]
    ELSE InitHook([S EXCEPT !.tasks[d].pc = "init",
                            !.inst[S.tasks[d].inst].inits = @ + 1,
                            !.inst[S.tasks[d].inst].depsActive =
                                DependenciesActive(S, S.tasks[d].name)],
                  S.tasks[d].name)

\* VaultCore.registerModule, from the call to the await of line 121
registerModule(S, d) ==
    IF hasModule(S, S.tasks[d].name) \/ S.tasks[d].name \in classes.invalid
    THEN [S EXCEPT !.tasks[d].pc = "registered", !.tasks[d].ok = FALSE,
                   !.tasks[d].had = hasModule(S, S.tasks[d].name)]
    ELSE InitHook([S EXCEPT !.tasks[d].pc = "init",
                            !.inst[S.tasks[d].inst].inits = @ + 1,
                            !.inst[S.tasks[d].inst].depsActive =
                                DependenciesActive(S, S.tasks[d].name)],
                  S.tasks[d].name)

\* this.eventBus.emit(eventType, data), with the registry as its listener for
\* '*' finds it
Publish(S, eventType, data) ==
    [S EXCEPT !.bus = Begin([S.bus EXCEPT !.modules = S.modules, !.order = S.order],
                            eventType, data)]

\* VaultCore.registerModule, lines 121-140: init() has returned or thrown
Initialized(S, d) ==
    IF S.tasks[d].name \in classes.initThrows
    THEN [S EXCEPT !.tasks[d].pc = "registered", !.tasks[d].ok = FALSE]
    ELSE IF S.tasks[d].name \in classes.apiThrows
    THEN [S EXCEPT !.modules[S.tasks[d].name] = S.tasks[d].inst,
                   !.inst[S.tasks[d].inst].registered = TRUE,
                   !.order = MapSet(@, S.tasks[d].name),
                   !.tasks[d].pc = "registered",
                   !.tasks[d].ok = FALSE]
    ELSE Publish([S EXCEPT !.modules[S.tasks[d].name] = S.tasks[d].inst,
                           !.inst[S.tasks[d].inst].registered = TRUE,
                           !.order = MapSet(@, S.tasks[d].name),
                           !.apis[S.tasks[d].name] = S.tasks[d].inst,
                           !.tasks[d].pc = "registered",
                           !.tasks[d].ok = TRUE],
                 ModuleRegistered, ModuleData(S.tasks[d].name))

\* the same without the finally block of lines 596-598 on a failure
LoadedKeepingEntry(S, l) ==
    IF S.tasks[S.tasks[l].wait].status = "resolved"
    THEN Resolve([S EXCEPT !.loaded[S.tasks[l].name] = S.tasks[S.tasks[l].wait].value,
                           !.loading[S.tasks[l].name] = 0],
                 l, S.tasks[S.tasks[l].wait].value)
    ELSE Reject(S, l)

\* loadModule, lines 593-598: its own _doLoadModule call has settled
Loaded(S, l) ==
    IF S.tasks[S.tasks[l].wait].status = "resolved"
    THEN Resolve([S EXCEPT !.loaded[S.tasks[l].name] = S.tasks[S.tasks[l].wait].value,
                           !.loading[S.tasks[l].name] = 0],
                 l, S.tasks[S.tasks[l].wait].value)
    ELSE Reject([S EXCEPT !.loading[S.tasks[l].name] = 0], l)

\* loadModule, line 583: the _doLoadModule call of another caller has settled
Joined(S, l) ==
    IF S.tasks[S.tasks[l].wait].status = "resolved"
    THEN Resolve(S, l, S.tasks[S.tasks[l].wait].value)
    ELSE Reject(S, l)

\* VaultCore.unregisterModule, from the call to the await of line 157
unregisterModule(S, u) ==
    IF ~hasModule(S, S.tasks[u].name)
    THEN [S EXCEPT !.tasks[u].pc = "unregistered", !.tasks[u].ok = FALSE]
    ELSE DestroyHook([S EXCEPT !.tasks[u].pc = "coreDestroy",
                               !.tasks[u].value = S.modules[S.tasks[u].name],
                               !.inst[S.modules[S.tasks[u].name]].destroys = @ + 1],
                     S.tasks[u].name)

\* unloadModule(moduleName), from the call to its first await or to its return
unloadModule(S, name) ==
    IF ~isModuleLoaded(S, name)
    THEN Resolve([S EXCEPT !.tasks = Append(@, NewTask("unload", name, "done"))],
                 Len(S.tasks) + 1, 0)
    ELSE unregisterModule(
            [S EXCEPT !.tasks = Append(@, [NewTask("unload", name, "unregister")
                                               EXCEPT !.inst = S.loaded[name]])],
            Len(S.tasks) + 1)

\* VaultCore.unregisterModule, lines 157-173: destroy() has returned or thrown
Unregistered(S, u) ==
    IF S.tasks[u].name \in classes.destroyThrows
    THEN [S EXCEPT !.tasks[u].pc = "unregistered", !.tasks[u].ok = FALSE]
    ELSE Publish([S EXCEPT !.modules[S.tasks[u].name] = 0,
                           !.order = MapDelete(@, S.tasks[u].name),
                           !.apis[S.tasks[u].name] = 0,
                           !.tasks[u].pc = "unregistered",
                           !.tasks[u].ok = TRUE],
                 ModuleUnregistered, ModuleData(S.tasks[u].name))

\* unloadModule, lines 773-775: the loader calls destroy() itself
Destroy(S, u) ==
    DestroyHook([S EXCEPT !.tasks[u].pc = "destroy",
                          !.inst[S.tasks[u].inst].destroys = @ + 1],
                S.tasks[u].name)

\* unloadModule, lines 774-785: destroy() has returned or thrown
Unloaded(S, u) ==
    IF S.tasks[u].name \in classes.destroyThrows
    THEN Resolve(S, u, S.tasks[u].value)
    ELSE [Resolve([S EXCEPT !.loaded[S.tasks[u].name] = 0], u, S.tasks[u].value)
            EXCEPT !.tasks[u].ok = TRUE]

\* can the call go on: it is not awaiting a call that is still pending
Ready(ts, t) ==
    /\ ts[t].status = "pending"
    /\ ts[t].pc \in {"deps", "own", "other"} => ts[ts[t].wait].status # "pending"

\* the call from the await it is suspended at to its next await, or to its return
Step(S, t) ==
    CASE S.tasks[t].pc = "file"         -> FileLoaded(S, t)
      [] S.tasks[t].pc = "deps"         -> DependencyLoaded(S, t)
      [] S.tasks[t].pc = "depsLoaded"   -> registerModule(S, t)
      [] S.tasks[t].pc = "init"         -> Initialized(S, t)
      [] S.tasks[t].pc = "registered"   -> Resolve(S, t, S.tasks[t].inst)
      [] S.tasks[t].pc = "own"          -> Loaded(S, t)
      [] S.tasks[t].pc = "other"        -> Joined(S, t)
      [] S.tasks[t].pc = "coreDestroy"  -> Unregistered(S, t)
      [] S.tasks[t].pc = "unregistered" ->
            IF S.tasks[t].kind = "unload" THEN Destroy(S, t)
            ELSE Resolve(S, t, S.tasks[t].value)
      [] S.tasks[t].pc = "destroy"      -> Unloaded(S, t)

SetLoader(S) ==
    /\ SetBus(S.bus)
    /\ moduleCache' = S.cache
    /\ loadedModules' = S.loaded
    /\ loadingPromises' = S.loading
    /\ modules' = S.modules
    /\ moduleOrder' = S.order
    /\ apis' = S.apis
    /\ inst' = S.inst
    /\ tasks' = S.tasks

(***************************************************************************)
(* The event bus alone: subscriptions, emissions and their resumptions in  *)
(* every order.                                                            *)
(***************************************************************************)
EmptyBus ==
    /\ events = [p \in EventTypes |-> <<>>]
    /\ wildcardListeners = <<>>
    /\ eventHistory = <<>>
    /\ totalEvents = 0
    /\ totalListeners = 0
    /\ em = <<>>
    /\ subs = <<>>
    /\ unsubscribed = {}

\* the loader as its constructor leaves it
EmptyLoader ==
    /\ moduleCache = {}
    /\ loadedModules = [n \in Names |-> 0]
    /\ loadingPromises = [n \in Names |-> 0]
    /\ modules = [n \in Names |-> 0]
    /\ moduleOrder = <<>>
    /\ apis = [n \in Names |-> 0]
    /\ inst = <<>>
    /\ tasks = <<>>

\* the note ids in use: a note stored before the calls and one per call
NoteIds == 1..(MaxNoteCalls + 1)
\* no note stored under the id
Absent == [present |-> FALSE, title |-> 0, content |-> 0]

\* no modal system constructed, no note stored
EmptyApp ==
    /\ activeModals = <<>>
    /\ modalCount = 0
    /\ elements = <<>>
    /\ frames = <<>>
    /\ timers = <<>>
    /\ styles = FALSE
    /\ noteCalls = <<>>
    /\ localStorage = [i \in NoteIds |-> Absent]

BusInit ==
    /\ EmptyBus
    /\ EmptyLoader
    /\ classes = MockClasses
    /\ calls = 0
    /\ EmptyApp

On(pattern, cb, once, priority) ==
    /\ calls < MaxCalls
    /\ SetBus(Subscribe(BusState, [id |-> Len(subs) + 1, pattern |-> pattern, cb |-> cb,
                                   once |-> once, priority |-> priority]))
    /\ calls' = calls + 1
    /\ UNCHANGED <<loaderVars, appVars>>

Off(pattern, cb) ==
    /\ calls < MaxCalls
    /\ calls' = calls + 1
    /\ SetBus(Unsubscribe(BusState, pattern, cb))
    /\ UNCHANGED <<loaderVars, appVars>>

Emit(eventType) ==
    /\ calls < MaxCalls
    /\ SetBus(Begin(BusState, eventType, NoData))
    /\ calls' = calls + 1
    /\ UNCHANGED <<loaderVars, appVars>>

ListenerSettles(e) ==
    /\ InFlight(em[e])
    /\ SetBus(Resume(BusState, e))
    /\ UNCHANGED <<calls, loaderVars, appVars>>

BusNext ==
    \/ \E p \in ExactPatterns, cb \in Callbacks, once \in BOOLEAN, pr \in Priorities :
            On(p, cb, once, pr)
    \/ \E p \in WildPatterns, cb \in Callbacks : On(p, cb, FALSE, 0)
    \/ \E p \in ExactPatterns \cup WildPatterns, cb \in Callbacks : Off(p, cb)
    \/ \E t \in Emitted : Emit(t)
    \/ \E e \in 1..Len(em) : ListenerSettles(e)

SpecBus == BusInit /\ [][BusNext]_vars

(***************************************************************************)
(* A bus that holds one-time listeners when the calls begin: the handler   *)
(* "f" is subscribed and unsubscribed and events are emitted, in every     *)
(* order with the resumptions of the emissions.                            *)
(***************************************************************************)
\* the on() calls made before: a permanent and a one-time listener for the
\* event, a one-time listener alone, a one-time listener for '*'
OnceRegistries ==
    {<<[pattern |-> TX, cb |-> "f", once |-> FALSE, priority |-> 0],
       [pattern |-> TX, cb |-> "h", once |-> TRUE, priority |-> 0]>>,
     <<[pattern |-> TX, cb |-> "h", once |-> TRUE, priority |-> 0]>>,
     <<[pattern |-> Star, cb |-> "h", once |-> TRUE, priority |-> 0]>>}

RECURSIVE Subscribed(_, _)
Subscribed(B, ls) ==
    IF ls = <<>> THEN B
    ELSE Subscribed(Subscribe(B, [id |-> Len(B.subs) + 1, pattern |-> Head(ls).pattern,
                                  cb |-> Head(ls).cb, once |-> Head(ls).once,
                                  priority |-> Head(ls).priority]),
                    Tail(ls))

\* the bus as its constructor leaves it, as one value
NewBus ==
    [events |-> [p \in EventTypes |-> <<>>], wild |-> <<>>, history |-> <<>>,
     totalEvents |-> 0, totalListeners |-> 0, em |-> <<>>, subs |-> <<>>,
     unsubscribed |-> {}, modules |-> [n \in Names |-> 0], order |-> <<>>]

OnceInit ==
    /\ \E r \in OnceRegistries :
            /\ events = Subscribed(NewBus, r).events
            /\ wildcardListeners = Subscribed(NewBus, r).wild
            /\ totalListeners = Subscribed(NewBus, r).totalListeners
            /\ subs = Subscribed(NewBus, r).subs
    /\ eventHistory = <<>>
    /\ totalEvents = 0
    /\ em = <<>>
    /\ unsubscribed = {}
    /\ EmptyLoader
    /\ classes = MockClasses
    /\ calls = 0
    /\ EmptyApp

OnceOn(pattern, cb) ==
    /\ calls < MaxOnceCalls
    /\ SetBus(Subscribe(BusState, [id |-> Len(subs) + 1, pattern |-> pattern, cb |-> cb,
                                   once |-> FALSE, priority |-> 0]))
    /\ calls' = calls + 1
    /\ UNCHANGED <<loaderVars, appVars>>

OnceOff(pattern, cb) ==
    /\ calls < MaxOnceCalls
    /\ SetBus(Unsubscribe(BusState, pattern, cb))
    /\ calls' = calls + 1
    /\ UNCHANGED <<loaderVars, appVars>>

OnceEmit(eventType) ==
    /\ calls < MaxOnceCalls
    /\ SetBus(Begin(BusState, eventType, NoData))
    /\ calls' = calls + 1
    /\ UNCHANGED <<loaderVars, appVars>>

OnceNext ==
    \/ OnceOn(TX, "f")
    \/ OnceOff(TX, "f")
    \/ OnceEmit(TX)
    \/ \E e \in 1..Len(em) : ListenerSettles(e)

SpecOnce == OnceInit /\ [][OnceNext]_vars

(***************************************************************************)
(* The modal system on a bus of its own: modals shown and hidden through   *)
(* its API, animation frames and the timers of hideModal, in every order.  *)
(***************************************************************************)
zIndexBase == 1000

\* config.id of the modals shown; NoId: the config has no id
ModalIds == {"a", "b"}
NoId == ""
\* `modal-${n}`
AutoId(n) == <<"modal-1", "modal-2", "modal-3", "modal-4", "modal-5">>[n]

\* the three on() calls of setupEventListeners
ModalListeners ==
    <<[pattern |-> ModalShow, cb |-> "showModal", once |-> FALSE, priority |-> 0],
      [pattern |-> ModalHide, cb |-> "hideModal", once |-> FALSE, priority |-> 0],
      [pattern |-> ModalUpdate, cb |-> "updateModal", once |-> FALSE, priority |-> 0]>>

\* the modal system and the bus, as one value
ModalState ==
    [activeModals |-> activeModals, modalCount |-> modalCount, elements |-> elements,
     frames |-> frames, timers |-> timers, styles |-> styles, bus |-> BusState]

\* this.activeModals.has(modalId), and the element stored under it
HasModal(M, modalId) == \E i \in 1..Len(M.activeModals) : M.activeModals[i].id = modalId

ElementOf(M, modalId) ==
    M.activeModals[CHOOSE i \in 1..Len(M.activeModals) : M.activeModals[i].id = modalId].element

\* showModal(config) once modalId is computed
Show(M, modalId) ==
    IF HasModal(M, modalId) THEN M
    ELSE [M EXCEPT !.elements = Append(@, [modalId |-> modalId, inDocument |-> TRUE,
                                           show |-> FALSE, zIndex |-> 0]),
                   !.activeModals = Append(@, [id |-> modalId,
                                               element |-> Len(M.elements) + 1]),
                   !.frames = Append(@, Len(M.elements) + 1),
                   !.bus = Begin(@, ModalShown, NoData)]

showModal(M, id) ==
    IF id = NoId
    THEN Show([M EXCEPT !.modalCount = @ + 1], AutoId(M.modalCount + 1))
    ELSE Show(M, id)

hideModal(M, modalId) ==
    IF ~HasModal(M, modalId) THEN M
    ELSE [M EXCEPT !.elements[ElementOf(M, modalId)].show = FALSE,
                   !.timers = Append(@, [modalId |-> modalId,
                                         element |-> ElementOf(M, modalId)])]

\* the callback that hideModal hands to setTimeout
Hidden(M, timer) ==
    [M EXCEPT !.elements[timer.element].inDocument = FALSE,
              !.activeModals = SelectSeq(@, LAMBDA m : m.id # timer.modalId),
              !.bus = Begin(@, ModalHidden, NoData)]

\* the callbacks handed to requestAnimationFrame, run in request order
RECURSIVE Rendered(_, _)
Rendered(M, els) ==
    IF els = <<>> THEN M
    ELSE Rendered([M EXCEPT !.elements[Head(els)].show = TRUE,
                            !.elements[Head(els)].zIndex =
                                    zIndexBase + Len(M.activeModals)],
                  Tail(els))

\* closeAllModals(): hideModal for every id of getActiveModalIds()
RECURSIVE HideEach(_, _)
HideEach(M, ids) ==
    IF ids = <<>> THEN M ELSE HideEach(hideModal(M, Head(ids)), Tail(ids))

closeAllModals(M) ==
    HideEach(M, <<>> \o [i \in 1..Len(M.activeModals) |-> M.activeModals[i].id])

\* ModalSystem.destroy()
destroy(M) ==
    [closeAllModals(M) EXCEPT
        !.bus = Unsubscribe(Unsubscribe(Unsubscribe(@, ModalShow, "undefined"),
                                        ModalHide, "undefined"),
                            ModalUpdate, "undefined"),
        !.styles = FALSE]

SetModal(M) ==
    /\ SetBus(M.bus)
    /\ activeModals' = M.activeModals
    /\ modalCount' = M.modalCount
    /\ elements' = M.elements
    /\ frames' = M.frames
    /\ timers' = M.timers
    /\ styles' = M.styles

\* after new EventBus() and new ModalSystem(eventBus)
ModalInit ==
    /\ events = Subscribed(NewBus, ModalListeners).events
    /\ wildcardListeners = <<>>
    /\ totalListeners = 3
    /\ subs = Subscribed(NewBus, ModalListeners).subs
    /\ eventHistory = <<>>
    /\ totalEvents = 0
    /\ em = <<>>
    /\ unsubscribed = {}
    /\ EmptyLoader
    /\ classes = MockClasses
    /\ calls = 0
    /\ activeModals = <<>>
    /\ modalCount = 0
    /\ elements = <<>>
    /\ frames = <<>>
    /\ timers = <<>>
    /\ styles = TRUE
    /\ noteCalls = <<>>
    /\ localStorage = [i \in NoteIds |-> Absent]

ShowModal(id) ==
    /\ calls < MaxModalCalls
    /\ SetModal(showModal(ModalState, id))
    /\ calls' = calls + 1
    /\ UNCHANGED <<loaderVars, noteVars>>

HideModal(modalId) ==
    /\ calls < MaxModalCalls
    /\ SetModal(hideModal(ModalState, modalId))
    /\ calls' = calls + 1
    /\ UNCHANGED <<loaderVars, noteVars>>

CloseAllModals ==
    /\ calls < MaxModalCalls
    /\ SetModal(closeAllModals(ModalState))
    /\ calls' = calls + 1
    /\ UNCHANGED <<loaderVars, noteVars>>

DestroyModals ==
    /\ calls < MaxModalCalls
    /\ SetModal(destroy(ModalState))
    /\ calls' = calls + 1
    /\ UNCHANGED <<loaderVars, noteVars>>

\* an animation frame: the callbacks requested so far run
AnimationFrame ==
    /\ frames # <<>>
    /\ SetModal([Rendered(ModalState, frames) EXCEPT !.frames = <<>>])
    /\ UNCHANGED <<calls, loaderVars, noteVars>>

\* 300 ms have passed since the oldest pending hideModal call
TimerFires ==
    /\ timers # <<>>
    /\ SetModal(Hidden([ModalState EXCEPT !.timers = Tail(@)], Head(timers)))
    /\ UNCHANGED <<calls, loaderVars, noteVars>>

ModalNext ==
    \/ \E id \in ModalIds \cup {NoId} : ShowModal(id)
    \/ \E id \in ModalIds \cup {AutoId(1)} : HideModal(id)
    \/ CloseAllModals
    \/ DestroyModals
    \/ AnimationFrame
    \/ TimerFires

SpecModal == ModalInit /\ [][ModalNext]_vars

(***************************************************************************)
(* The history buffer: emissions of an event nobody listens to, up to      *)
(* beyond the capacity of the buffer.                                      *)
(***************************************************************************)
EmitNext(eventType) ==
    /\ calls < MaxEmissions
    /\ SetBus(Begin(BusState, eventType, NoData))
    /\ calls' = calls + 1
    /\ UNCHANGED <<loaderVars, appVars>>

HistoryNext == \E t \in Emitted : EmitNext(t)

SpecHistory == BusInit /\ [][HistoryNext]_vars

(***************************************************************************)
(* The loader attached to an initialized core: loads and unloads issued    *)
(* from outside, and the resumptions of the suspended calls in every       *)
(* order.                                                                  *)
(***************************************************************************)
\* the listener that VaultCore.setupEventListeners registers for '*'
Forwarder == [id |-> 1, pattern |-> Star, cb |-> "forward", once |-> FALSE, priority |-> 0]

\* the bus after VaultCore.init; the listeners for 'storage:save' and
\* 'storage:load' match none of the event types emitted here and are left out
LoaderInit ==
    /\ events = [p \in EventTypes |-> <<>>]
    /\ wildcardListeners = <<Forwarder>>
    /\ eventHistory = <<>>
    /\ totalEvents = 0
    /\ totalListeners = 1
    /\ em = <<>>
    /\ subs = <<Forwarder>>
    /\ unsubscribed = {}
    /\ EmptyLoader
    /\ classes \in ModuleClasses
    /\ calls = 0
    /\ EmptyApp

LoadModule(name) ==
    /\ calls < MaxLoaderCalls
    /\ SetLoader(loadModule(LoaderState, name))
    /\ calls' = calls + 1
    /\ UNCHANGED <<classes, appVars>>

UnloadModule(name) ==
    /\ calls < MaxLoaderCalls
    /\ SetLoader(unloadModule(LoaderState, name))
    /\ calls' = calls + 1
    /\ UNCHANGED <<classes, appVars>>

TaskResumes(t) ==
    /\ Ready(tasks, t)
    /\ SetLoader(Step(LoaderState, t))
    /\ UNCHANGED <<calls, classes, appVars>>

LoaderNext ==
    \/ \E n \in Names : LoadModule(n)
    \/ \E n \in Names : UnloadModule(n)
    \/ \E t \in 1..Len(tasks) : TaskResumes(t)
    \/ \E e \in 1..Len(em) : ListenerSettles(e)

SpecLoader == LoaderInit /\ [][LoaderNext]_vars

(***************************************************************************)
(* The loader after `await loadModule('A')`, with A depending on B or on   *)
(* nothing and B loaded too, and after eventBus.clearHistory(): loads and  *)
(* unloads of modules that are active.                                     *)
(***************************************************************************)
LoadedInstance(name) ==
    [name |-> name, inits |-> 1, destroys |-> 0, depsActive |-> TRUE, registered |-> TRUE]

UnloadInit ==
    /\ events = [p \in EventTypes |-> <<>>]
    /\ wildcardListeners = <<Forwarder>>
    /\ eventHistory = <<>>
    /\ totalEvents = 3
    /\ totalListeners = 1
    /\ em = <<>>
    /\ subs = <<Forwarder>>
    /\ unsubscribed = {}
    /\ classes \in {MockClasses,
                    [MockClasses EXCEPT !.dependencies = ("A" :> <<Core, "B">>) @@ ("B" :> <<>>)]}
    /\ moduleCache = Names
    /\ loadedModules = ("A" :> 2) @@ ("B" :> 1)
    /\ loadingPromises = [n \in Names |-> 0]
    /\ modules = ("A" :> 2) @@ ("B" :> 1)
    /\ moduleOrder = <<"B", "A">>
    /\ apis = ("A" :> 2) @@ ("B" :> 1)
    /\ inst = <<LoadedInstance("B"), LoadedInstance("A")>>
    /\ tasks = <<>>
    /\ calls = 0
    /\ EmptyApp

SpecUnload == UnloadInit /\ [][LoaderNext]_vars

(***************************************************************************)
(* The core alone: modules registered and unregistered directly, events    *)
(* emitted from outside, and the resumptions of the suspended calls in     *)
(* every order.                                                            *)
(***************************************************************************)
CoreInit ==
    /\ events = [p \in EventTypes |-> <<>>]
    /\ wildcardListeners = <<Forwarder>>
    /\ eventHistory = <<>>
    /\ totalEvents = 0
    /\ totalListeners = 1
    /\ em = <<>>
    /\ subs = <<Forwarder>>
    /\ unsubscribed = {}
    /\ EmptyLoader
    /\ classes \in CoreClasses
    /\ calls = 0
    /\ EmptyApp

\* the event types emitted from outside the core
Published == {TX, Number42}

\* core.registerModule(name, new ModuleClass())
RegisterModule(name) ==
    /\ calls < MaxCoreCalls
    /\ SetLoader(registerModule(
            NewInstance([LoaderState EXCEPT
                            !.tasks = Append(@, NewTask("register", name, "call"))],
                        Len(tasks) + 1),
            Len(tasks) + 1))
    /\ calls' = calls + 1
    /\ UNCHANGED <<classes, appVars>>

\* core.unregisterModule(name)
UnregisterModule(name) ==
    /\ calls < MaxCoreCalls
    /\ SetLoader(unregisterModule(
            [LoaderState EXCEPT !.tasks = Append(@, NewTask("unregister", name, "call"))],
            Len(tasks) + 1))
    /\ calls' = calls + 1
    /\ UNCHANGED <<classes, appVars>>

\* eventBus.emit(eventType, data) from outside
PublishEvent(eventType) ==
    /\ calls < MaxCoreCalls
    /\ SetBus(Begin(BusState, eventType, NoData))
    /\ calls' = calls + 1
    /\ UNCHANGED <<loaderVars, appVars>>

CoreNext ==
    \/ \E n \in Names : RegisterModule(n)
    \/ \E n \in Names : UnregisterModule(n)
    \/ \E t \in Published : PublishEvent(t)
    \/ \E t \in 1..Len(tasks) : TaskResumes(t)
    \/ \E e \in 1..Len(em) : ListenerSettles(e)

SpecCore == CoreInit /\ [][CoreNext]_vars

(***************************************************************************)
(* The note operations of an initialized core with no module registered:   *)
(* addNote, updateNote and deleteNote calls, their resumptions and those   *)
(* of the emissions in every order; localStorage.setItem may throw.        *)
(***************************************************************************)
Fields == {"title", "content"}

\* the core, the storage and the bus as one value
NoteState == [noteCalls |-> noteCalls, localStorage |-> localStorage, bus |-> BusState]

\* a call of addNote, updateNote or deleteNote: its arguments, its position,
\* the array its loadNotes() returned, what save() returned and its promise
NewNoteCall(kind, id, field, pc) ==
    [kind |-> kind, id |-> id, field |-> field, pc |-> pc, status |-> "pending",
     notes |-> [i \in NoteIds |-> Absent], found |-> FALSE, attempted |-> FALSE,
     saved |-> FALSE, ok |-> FALSE]

\* the payload of the events of call c
NoteData(c) ==
    [kind |-> "note", originalEvent |-> <<>>, errors |-> <<>>, eventId |-> c, name |-> ""]

\* this.eventBus.emit(eventType, ...) in call c, not awaited
EmitNote(S, c, eventType) == [S EXCEPT !.bus = Begin(@, eventType, NoteData(c))]

\* StorageManager.loadNotes(): load() parses what localStorage holds
loadNotes(S, c) == [S EXCEPT !.noteCalls[c].notes = S.localStorage]

\* StorageManager.save(keys.notes, notes): false when setItem throws
save(S, c, notes, throws) ==
    IF throws
    THEN [S EXCEPT !.noteCalls[c].attempted = TRUE, !.noteCalls[c].saved = FALSE]
    ELSE [S EXCEPT !.localStorage = notes,
                   !.noteCalls[c].attempted = TRUE,
                   !.noteCalls[c].saved = TRUE]

Settled(S, c, status, ok) ==
    [S EXCEPT !.noteCalls[c].pc = "done",
              !.noteCalls[c].status = status,
              !.noteCalls[c].ok = ok]

\* VaultCore.addNote(noteData), from the call to its await
addNote(S, id, valid) ==
    IF ~valid
    THEN Settled(EmitNote([S EXCEPT !.noteCalls =
                                Append(@, NewNoteCall("add", id, "title", "call"))],
                          Len(S.noteCalls) + 1, NoteAddFailed),
                 Len(S.noteCalls) + 1, "rejected", FALSE)
    ELSE loadNotes(EmitNote([S EXCEPT !.noteCalls =
                                Append(@, NewNoteCall("add", id, "title", "loaded"))],
                            Len(S.noteCalls) + 1, NotePreAdd),
                   Len(S.noteCalls) + 1)

\* StorageManager.saveNote, lines 328-368: the note put into the array read
SaveNote(S, c, throws) ==
    [save(S, c, [S.noteCalls[c].notes EXCEPT ![S.noteCalls[c].id] =
                        [present |-> TRUE, title |-> c, content |-> c]], throws)
        EXCEPT !.noteCalls[c].pc = "saved"]

\* VaultCore.addNote, lines 240-244
Added(S, c) == Settled(EmitNote(S, c, NoteAdded), c, "resolved", TRUE)

\* VaultCore.updateNote(noteId, updates), from the call to its await
updateNote(S, id, field) ==
    loadNotes(EmitNote([S EXCEPT !.noteCalls =
                            Append(@, NewNoteCall("update", id, field, "loaded"))],
                       Len(S.noteCalls) + 1, NotePreUpdate),
              Len(S.noteCalls) + 1)

\* StorageManager.updateNote, lines 394-408
UpdateNote(S, c, throws) ==
    IF ~S.noteCalls[c].notes[S.noteCalls[c].id].present
    THEN Settled(EmitNote(S, c, NoteUpdateFailed), c, "rejected", FALSE)
    ELSE [save(S, c, [S.noteCalls[c].notes EXCEPT
                            ![S.noteCalls[c].id][S.noteCalls[c].field] = c], throws)
            EXCEPT !.noteCalls[c].pc = "saved"]

\* VaultCore.updateNote, lines 266-270
Updated(S, c) == Settled(EmitNote(S, c, NoteUpdated), c, "resolved", TRUE)

\* VaultCore.deleteNote(noteId), from the call to the await in getNote
deleteNote(S, id) ==
    loadNotes([S EXCEPT !.noteCalls = Append(@, NewNoteCall("delete", id, "title", "got"))],
              Len(S.noteCalls) + 1)

\* VaultCore.getNote, lines 315-323
Got(S, c) ==
    IF S.noteCalls[c].notes[S.noteCalls[c].id].present
    THEN [EmitNote(S, c, NoteAccessed) EXCEPT !.noteCalls[c].pc = "note",
                                              !.noteCalls[c].found = TRUE]
    ELSE [S EXCEPT !.noteCalls[c].pc = "note"]

\* VaultCore.deleteNote, lines 288-292
PreDelete(S, c) ==
    [loadNotes(EmitNote(S, c, NotePreDelete), c) EXCEPT !.noteCalls[c].pc = "loaded"]

\* StorageManager.deleteNote, lines 423-431
DeleteNote(S, c, throws) ==
    IF ~S.noteCalls[c].notes[S.noteCalls[c].id].present
    THEN [S EXCEPT !.noteCalls[c].pc = "saved", !.noteCalls[c].ok = FALSE]
    ELSE [save(S, c, [S.noteCalls[c].notes EXCEPT ![S.noteCalls[c].id] = Absent], throws)
            EXCEPT !.noteCalls[c].pc = "saved", !.noteCalls[c].ok = TRUE]

\* VaultCore.deleteNote, lines 294-300
Deleted(S, c) ==
    IF S.noteCalls[c].ok
    THEN Settled(EmitNote(S, c, NoteDeleted), c, "resolved", TRUE)
    ELSE Settled(S, c, "resolved", FALSE)

\* the call from the await it is suspended at to its next await, or to its return
NoteStep(S, c, throws) ==
    CASE S.noteCalls[c].pc = "got"    -> Got(S, c)
      [] S.noteCalls[c].pc = "note"   -> PreDelete(S, c)
      [] S.noteCalls[c].pc = "loaded" ->
            IF S.noteCalls[c].kind = "add" THEN SaveNote(S, c, throws)
            ELSE IF S.noteCalls[c].kind = "update" THEN UpdateNote(S, c, throws)
            ELSE DeleteNote(S, c, throws)
      [] S.noteCalls[c].pc = "saved"  ->
            IF S.noteCalls[c].kind = "add" THEN Added(S, c)
            ELSE IF S.noteCalls[c].kind = "update" THEN Updated(S, c)
            ELSE Deleted(S, c)

SetNotes(S) ==
    /\ SetBus(S.bus)
    /\ noteCalls' = S.noteCalls
    /\ localStorage' = S.localStorage

\* the bus and the storage after VaultCore.init, with no note or one note stored
NoteInit ==
    /\ events = [p \in EventTypes |-> <<>>]
    /\ wildcardListeners = <<Forwarder>>
    /\ eventHistory = <<>>
    /\ totalEvents = 0
    /\ totalListeners = 1
    /\ em = <<>>
    /\ subs = <<Forwarder>>
    /\ unsubscribed = {}
    /\ EmptyLoader
    /\ classes = MockClasses
    /\ calls = 0
    /\ activeModals = <<>>
    /\ modalCount = 0
    /\ elements = <<>>
    /\ frames = <<>>
    /\ timers = <<>>
    /\ styles = FALSE
    /\ noteCalls = <<>>
    /\ localStorage \in {[i \in NoteIds |-> Absent],
                         [i \in NoteIds |-> IF i = 1
                                            THEN [present |-> TRUE, title |-> 0, content |-> 0]
                                            ELSE Absent]}

\* the id of the next note added: the caller gives every note an id of its own
NextNoteId == 2 + Cardinality({c \in 1..Len(noteCalls) : noteCalls[c].kind = "add"})

AddNoteCall(valid) ==
    /\ calls < MaxNoteCalls
    /\ SetNotes(addNote(NoteState, NextNoteId, valid))
    /\ calls' = calls + 1
    /\ UNCHANGED <<loaderVars, modalVars>>

UpdateNoteCall(id, field) ==
    /\ calls < MaxNoteCalls
    /\ SetNotes(updateNote(NoteState, id, field))
    /\ calls' = calls + 1
    /\ UNCHANGED <<loaderVars, modalVars>>

DeleteNoteCall(id) ==
    /\ calls < MaxNoteCalls
    /\ SetNotes(deleteNote(NoteState, id))
    /\ calls' = calls + 1
    /\ UNCHANGED <<loaderVars, modalVars>>

NoteCallResumes(c, throws) ==
    /\ noteCalls[c].status = "pending"
    /\ SetNotes(NoteStep(NoteState, c, throws))
    /\ UNCHANGED <<calls, loaderVars, modalVars>>

NoteNext ==
    \/ \E valid \in BOOLEAN : AddNoteCall(valid)
    \/ \E id \in 1..2, field \in Fields : UpdateNoteCall(id, field)
    \/ \E id \in 1..2 : DeleteNoteCall(id)
    \/ \E c \in 1..Len(noteCalls), throws \in BOOLEAN : NoteCallResumes(c, throws)
    \/ \E e \in 1..Len(em) : ListenerSettles(e)

SpecNotes == NoteInit /\ [][NoteNext]_vars

(***************************************************************************)
(* Properties of the loader.                                               *)
(***************************************************************************)
Tasks == 1..Len(tasks)
Instances == 1..Len(inst)
Loads(n) == {t \in Tasks : tasks[t].kind = "load" /\ tasks[t].name = n}
Resolved(t) == tasks[t].status = "resolved"
\* an unloadModule(n) call has found n loaded
UnloadBegun(n) ==
    \E u \in Tasks : tasks[u].kind = "unload" /\ tasks[u].name = n /\ tasks[u].inst # 0
\* how often init() has been called on the first i instances, for those of name n
RECURSIVE InitsUpTo(_, _)
InitsUpTo(n, i) ==
    IF i = 0 THEN 0
    ELSE InitsUpTo(n, i - 1) + (IF inst[i].name = n THEN inst[i].inits ELSE 0)
InitCount(n) == InitsUpTo(n, Len(inst))
DependsOn(a, b) == \E k \in 1..Len(Dependencies(a)) : Dependencies(a)[k] = b
OnCycle(n) == DependsOn(n, n) \/ \E m \in Names : DependsOn(n, m) /\ DependsOn(m, n)
\* the load has failed: init() of its instance threw, or the load of a
\* dependency was rejected
LoadFailed(t) ==
    /\ tasks[t].wait # 0
    /\ \/ /\ tasks[tasks[t].wait].inst # 0
          /\ inst[tasks[tasks[t].wait].inst].inits > 0
          /\ tasks[t].name \in classes.initThrows
       \/ /\ tasks[tasks[t].wait].wait # 0
          /\ tasks[tasks[tasks[t].wait].wait].status = "rejected"

C2_DependencyOrder ==
    \A i \in Instances : inst[i].inits > 0 => inst[i].depsActive

\* C3: a loadModule call for a module on a dependency cycle never resolves, no
\* module on a cycle is active, and while such a call is pending some
\* suspended call of the loader can go on.
C3_CycleRejected ==
    \A t \in Tasks :
        tasks[t].kind = "load" /\ OnCycle(tasks[t].name) =>
            /\ ~Resolved(t)
            /\ ~Active(LoaderState, tasks[t].name)
            /\ tasks[t].status = "pending" => \E r \in Tasks : Ready(tasks, r)

\* C4: a loadModule(X) call that has settled after init() of X threw, or after
\* the load of a dependency of X was rejected, has rejected, and X is neither
\* loaded nor registered in the core.
C4_LoadFailure ==
    \A t \in Tasks :
        tasks[t].kind = "load" /\ tasks[t].status # "pending" /\ LoadFailed(t) =>
            /\ tasks[t].status = "rejected"
            /\ ~isModuleLoaded(LoaderState, tasks[t].name)
            /\ ~hasModule(LoaderState, tasks[t].name)

(***************************************************************************)
(* Properties of the event bus.                                            *)
(***************************************************************************)
Emissions == 1..Len(em)
Listeners == 1..Len(subs)
Done(e) == em[e].pc = "done"
Range(s) == {s[i] : i \in 1..Len(s)}
Count(s, x) == Cardinality({i \in 1..Len(s) : s[i] = x})
\* how often listener l has been invoked, over all emissions
Invocations(l) ==
    Cardinality({p \in Emissions \X (1..MaxCalls + 1) :
                    p[2] <= Len(em[p[1]].log) /\ em[p[1]].log[p[2]] = l})
IsExact(l) == ~IsWildcard(subs[l].pattern)
\* the emission invoked exactly the listeners registered when it started, once each
InvokedSnapshot(e) ==
    \A l \in Listeners :
        Count(em[e].log, l) = IF l \in Range(em[e].snapshot) THEN 1 ELSE 0
Succeeded(log) == SelectSeq(log, LAMBDA l : ~Throws(subs[l].cb))
Failed(log) == SelectSeq(log, LAMBDA l : Throws(subs[l].cb))
\* the diagnostic emissions issued for emission e
Diagnostics(e) ==
    {d \in Emissions : em[d].data.kind = "listener" /\ em[d].data.eventId = e}

\* C12: every handleEvent call made while an emission is forwarded has the
\* emission's event type as first argument and its payload as second
\* argument, and every module that was registered with a handleEvent function
\* when the emission was forwarded has been called exactly once.
C12_GlobalForwarding ==
    \A e \in Emissions :
        /\ \A i \in 1..Len(em[e].handled) :
                /\ em[e].handled[i].first.kind = "type"
                /\ em[e].handled[i].first.value = em[e].type
                /\ em[e].handled[i].second.kind = "payload"
                /\ em[e].handled[i].second.value = em[e].data
        /\ \A m \in em[e].offered :
                Cardinality({i \in 1..Len(em[e].handled) : em[e].handled[i].module = m}) = 1

\* C13: when an emission has been forwarded, every module registered with a
\* handleEvent function at that time has been called exactly once, whether or
\* not a handleEvent threw, and the emission records no error for the
\* forwarding listener.
C13_ForwardingBoundary ==
    \A e \in Emissions :
        Forwarder.id \in Range(em[e].log) =>
            /\ \A m \in em[e].offered :
                    Cardinality({i \in 1..Len(em[e].handled) :
                                    em[e].handled[i].module = m}) = 1
            /\ Forwarder.id \notin Range(em[e].errors)
            /\ Done(e) => Forwarder.id \in Range(em[e].results)

\* C13: an emission has returned without errors in which a handleEvent threw
\* and a module later in the registry was called after it
C13_Witness ==
    \E e \in Emissions :
        /\ Done(e)
        /\ em[e].errors = <<>>
        /\ \E i, j \in 1..Len(em[e].handled) :
                /\ i < j
                /\ em[e].handled[i].threw
                /\ ~em[e].handled[j].threw

\* the registerModule calls made from outside for name n
Registrations(n) == {t \in Tasks : tasks[t].kind = "register" /\ tasks[t].name = n}
\* the emissions of 'core:module-registered' for name n
RegisteredEvents(n) ==
    {e \in Emissions : em[e].type = ModuleRegistered /\ em[e].data.name = n}
\* this step is a registerModule call with an instance that fails the validation
InvalidRegistration ==
    /\ Len(tasks') = Len(tasks) + 1
    /\ tasks'[Len(tasks')].kind = "register"
    /\ tasks'[Len(tasks')].name \in classes.invalid

C14_Rejected ==
    \A n \in classes.invalid :
        /\ modules[n] = 0
        /\ apis[n] = 0
        /\ RegisteredEvents(n) = {}
        /\ \A t \in Registrations(n) :
                /\ inst[tasks[t].inst].inits = 0
                /\ tasks[t].status = "resolved" => ~tasks[t].ok

C14_Unchanged ==
    InvalidRegistration =>
        /\ modules' = modules
        /\ moduleOrder' = moduleOrder
        /\ apis' = apis
        /\ em' = em
        /\ \A i \in 1..Len(inst) : inst'[i] = inst[i]

\* C14: a registerModule call with an instance that fails the interface
\* validation never calls init of the instance, reports false, is followed by
\* no 'core:module-registered' event for the name, and the call changes
\* neither the module registry nor the API registry.
C14_CapabilityValidation == []C14_Rejected /\ [][C14_Unchanged]_vars

\* C14: a registerModule call with an invalid instance has reported false
\* while another module was registered
C14_Witness ==
    \E n \in classes.invalid :
        /\ \E t \in Registrations(n) : tasks[t].status = "resolved" /\ ~tasks[t].ok
        /\ \E k \in Names : modules[k] # 0

\* the handleEvent calls made on instance i
HandleEventCallsOn(i) ==
    {c \in Emissions \X (1..Cardinality(Names)) :
        c[2] <= Len(em[c[1]].handled) /\ em[c[1]].handled[c[2]].module = i}

\* C15: after a registerModule call has reported false because init or getAPI
\* of the instance threw, the instance is in neither registry and no event
\* has been forwarded to it.
C15_FailedRegistration ==
    \A t \in Tasks :
        /\ tasks[t].kind = "register"
        /\ tasks[t].status = "resolved"
        /\ ~tasks[t].ok
        /\ inst[tasks[t].inst].inits > 0
        => /\ modules[tasks[t].name] # tasks[t].inst
           /\ apis[tasks[t].name] # tasks[t].inst
           /\ HandleEventCallsOn(tasks[t].inst) = {}
           /\ RegisteredEvents(tasks[t].name) = {}

\* the unregisterModule calls made from outside for name n
Unregistrations(n) == {t \in Tasks : tasks[t].kind = "unregister" /\ tasks[t].name = n}

\* C16: as long as no unregisterModule call has been made for a name, at most
\* one instance has been stored in the registry under it, at most one
\* registerModule call for it has reported true, and a call that found the
\* name registered has not called init and reports false.
C16_UniqueName ==
    \A n \in Names :
        Unregistrations(n) = {} =>
            /\ Cardinality({i \in Instances : inst[i].name = n /\ inst[i].registered}) <= 1
            /\ Cardinality({t \in Registrations(n) :
                                tasks[t].status = "resolved" /\ tasks[t].ok}) <= 1
            /\ \A t \in Registrations(n) :
                    tasks[t].had =>
                        /\ inst[tasks[t].inst].inits = 0
                        /\ tasks[t].status = "resolved" => ~tasks[t].ok

\* C17: when an unregisterModule or unloadModule call has returned after
\* destroy() of the module threw, the instance it found is in neither
\* registry and is not loaded.
C17_BestEffortTeardown ==
    \A t \in Tasks :
        /\ tasks[t].kind \in {"unregister", "unload"}
        /\ tasks[t].status = "resolved"
        /\ tasks[t].name \in classes.destroyThrows
        /\ tasks[t].value # 0 \/ tasks[t].inst # 0
        => /\ modules[tasks[t].name] \notin {tasks[t].value, tasks[t].inst} \ {0}
           /\ apis[tasks[t].name] \notin {tasks[t].value, tasks[t].inst} \ {0}
           /\ loadedModules[tasks[t].name] \notin {tasks[t].inst} \ {0}

\* the loadModule call l started its own _doLoadModule call
Own(l) == tasks[l].kind = "load" /\ tasks[l].wait = l + 1

\* the loadModule call that is awaiting the operation d it started
Owner(d) == {l \in Tasks : Own(l) /\ tasks[l].wait = d /\ tasks[l].status = "pending"}

C21_EntryPending ==
    \A n \in Names :
        loadingPromises[n] # 0 =>
            /\ tasks[loadingPromises[n]].kind = "doLoad"
            /\ tasks[loadingPromises[n]].name = n
            /\ Owner(loadingPromises[n]) # {}

\* a loadModule call made in this step awaits an operation started in this
\* step or one whose loadModule call has not settled
C21_FreshAttempt ==
    \A l \in (Len(tasks) + 1)..Len(tasks') :
        tasks'[l].kind = "load" /\ tasks'[l].wait # 0 =>
            \/ tasks'[l].wait > Len(tasks)
            \/ Owner(tasks'[l].wait) # {}

\* C21: loadingPromises holds an entry for X only while the loadModule(X)
\* call that started the operation is pending, and a loadModule(X) call
\* never awaits an operation whose loadModule call has settled: after a
\* failed load it starts a new operation.
C21_InFlightHygiene == []C21_EntryPending /\ [][C21_FreshAttempt]_vars

\* a load of X failed, its entry is gone, and a later loadModule(X) call
\* started an operation of its own
C21_Witness ==
    \E n \in Names : \E l1, l2 \in Loads(n) :
        /\ l1 < l2
        /\ Own(l1) /\ tasks[l1].status = "rejected"
        /\ Own(l2)
        /\ loadingPromises[n] = l2 + 1

\* C22: no emission invokes a listener whose pattern and callback off() had
\* been called with when the emission started: after off(P, h) only a new
\* subscription of h is invoked.
C22_UnsubscribeEffective ==
    \A e \in Emissions : Range(em[e].log) \cap em[e].gone = {}

\* C23: a one-time listener for a wildcard pattern is invoked at most once
\* over all emissions.
C23_WildcardOnce ==
    \A l \in Listeners :
        IsWildcard(subs[l].pattern) /\ subs[l].once =>
            /\ Cardinality({e \in Emissions : l \in Range(em[e].log)}) <= 1
            /\ \A e \in Emissions : Count(em[e].log, l) <= 1

\* C29: an emission that has returned has invoked every permanent listener
\* for its exact type that was subscribed before the emission started and
\* that off() has not been called for.
C29_SubscriptionKept ==
    \A e \in Emissions :
        Done(e) =>
            \A l \in 1..em[e].known :
                /\ subs[l].pattern = em[e].type
                /\ ~subs[l].once
                /\ l \notin unsubscribed
                => l \in Range(em[e].log)

Unloads(n) == {t \in Tasks : tasks[t].kind = "unload" /\ tasks[t].name = n}

\* C27: when an unloadModule call has returned true, destroy() of the
\* instance it unloaded has been invoked exactly once.
C27_TeardownOnce ==
    \A n \in Names : \A u \in Unloads(n) :
        tasks[u].status = "resolved" /\ tasks[u].ok =>
            inst[tasks[u].inst].destroys = 1

\* the loadModule call l resolves in this step
LoadResolves(l) ==
    /\ tasks'[l].kind = "load"
    /\ tasks'[l].status = "resolved"
    /\ l > Len(tasks) \/ tasks[l].status # "resolved"

\* one unloadModule(X) call, a loadModule(X) call made after it, both settled
\* and the load resolved: X is loaded and registered
C28_ActiveAfterwards ==
    \A n \in Names : \A u \in Unloads(n) : \A l \in Loads(n) :
        /\ Unloads(n) = {u}
        /\ u < l
        /\ tasks[u].status # "pending"
        /\ tasks[l].status = "resolved"
        => isModuleLoaded(LoaderState, n) /\ hasModule(LoaderState, n)

C28_Step ==
    /\ \A l \in 1..Len(tasks') :
            LoadResolves(l) => inst'[tasks'[l].value].destroys = 0
    /\ C28_ActiveAfterwards'

\* C28: the instance a loadModule call resolves with has not had destroy()
\* invoked when the call resolves, and when a loadModule(X) call made after
\* the only unloadModule(X) call began has resolved and the unload has
\* settled, X is active.
C28_NoTornDownModule == [][C28_Step]_vars

\* the modal's animation-frame callback has run
IsRendered(m) == \A i \in 1..Len(frames) : frames[i] # m.element

\* C24: of two active modals that have both been rendered, the one shown
\* later has the strictly higher z-index.
C24_ModalStacking ==
    \A i, j \in 1..Len(activeModals) :
        /\ i < j
        /\ IsRendered(activeModals[i])
        /\ IsRendered(activeModals[j])
        => elements[activeModals[j].element].zIndex
                > elements[activeModals[i].element].zIndex

\* the step is a destroy() call: only destroy removes the styles
DestroyReturns == styles /\ ~styles'

\* C25: when destroy() returns, no modal is active, no modal element is in
\* the document and the styles are removed.
C25_Step ==
    DestroyReturns =>
        /\ activeModals' = <<>>
        /\ \A e \in 1..Len(elements') : ~elements'[e].inDocument
        /\ ~styles'

C25_CleanupOnDestroy == [][C25_Step]_vars

NoteCalls == 1..Len(noteCalls)
NoteCallsOn(kinds, id) ==
    {c \in NoteCalls : noteCalls[c].kind \in kinds /\ noteCalls[c].id = id}
NoteSucceeded(c) == noteCalls[c].status = "resolved" /\ noteCalls[c].ok

\* C26: when all note calls have settled and no save has failed, every note
\* whose addNote resolved is stored unless a deleteNote was called for it,
\* every resolved updateNote has its value in the stored note unless the
\* note's deletion or another update of the same field was called for, and
\* every note whose deleteNote returned true is not stored unless an add or
\* an update of it was called for.
C26_NoLostUpdate ==
    /\ \A c \in NoteCalls : noteCalls[c].status # "pending"
    /\ \A c \in NoteCalls : noteCalls[c].attempted => noteCalls[c].saved
    => \A c \in NoteCalls :
          NoteSucceeded(c) =>
            CASE noteCalls[c].kind = "add" ->
                    NoteCallsOn({"delete"}, noteCalls[c].id) = {}
                        => localStorage[noteCalls[c].id].present
              [] noteCalls[c].kind = "update" ->
                    /\ NoteCallsOn({"delete"}, noteCalls[c].id) = {}
                    /\ \A d \in NoteCallsOn({"update"}, noteCalls[c].id) :
                            d # c => noteCalls[d].field # noteCalls[c].field
                    => /\ localStorage[noteCalls[c].id].present
                       /\ localStorage[noteCalls[c].id][noteCalls[c].field] = c
              [] noteCalls[c].kind = "delete" ->
                    NoteCallsOn({"add", "update"}, noteCalls[c].id) = {}
                        => ~localStorage[noteCalls[c].id].present

\* the events of type eventType emitted by the note call c
NoteEvents(c, eventType) ==
    {e \in Emissions : /\ em[e].type = eventType
                       /\ em[e].data.kind = "note"
                       /\ em[e].data.eventId = c}

\* C30: an addNote call that has reached the save has emitted 'note:pre-add';
\* 'note:added' is emitted only when the save has written the note; when the
\* save has failed the call emits no 'note:added', and once it has settled it
\* has emitted 'note:add-failed' and is rejected.
C30_NoteEventsFollowStorage ==
    \A c \in NoteCalls :
        noteCalls[c].kind = "add" =>
            /\ noteCalls[c].pc \in {"loaded", "saved"} \/ noteCalls[c].attempted
                    => NoteEvents(c, NotePreAdd) # {}
            /\ NoteEvents(c, NoteAdded) # {} => noteCalls[c].saved
            /\ noteCalls[c].attempted /\ ~noteCalls[c].saved
                    => /\ NoteEvents(c, NoteAdded) = {}
                       /\ noteCalls[c].status # "pending"
                            => /\ NoteEvents(c, NoteAddFailed) # {}
                               /\ noteCalls[c].status = "rejected"

\* this step is a step of the unloadModule call u
UnloadStep(u) ==
    /\ tasks'[u].kind = "unload"
    /\ u > Len(tasks) \/ tasks'[u] # tasks[u]

C18_Step ==
    \A u \in 1..Len(tasks') :
        UnloadStep(u) =>
            /\ \A n \in Names \ {tasks'[u].name} :
                    /\ loadedModules'[n] = loadedModules[n]
                    /\ modules'[n] = modules[n]
                    /\ apis'[n] = apis[n]
            /\ tasks'[u].status = "resolved" /\ tasks'[u].ok =>
                    /\ loadedModules'[tasks'[u].name] = 0
                    /\ modules'[tasks'[u].name] = 0
                    /\ apis'[tasks'[u].name] = 0

\* C18: no step of an unloadModule(X) call changes the loaded entry, the
\* registry entry or the API entry of another module, and when the call
\* returns true X is in none of the three.
C18_NonCascadingUnload == [][C18_Step]_vars

\* module n has been unregistered and no registration of it is under way
TornDown(n) ==
    /\ modules[n] = 0
    /\ \E t \in Unregistrations(n) : tasks[t].status = "resolved" /\ tasks[t].ok
    /\ \A t \in Registrations(n) : tasks[t].status = "resolved"

\* the listeners of the bus that module n subscribed
Owned(n) ==
    {l \in UNION {Range(events[p]) : p \in EventTypes} \cup Range(wildcardListeners) :
        l.cb = n}

C19_Step ==
    \A n \in Names :
        /\ TornDown(n)' => Owned(n)' = {}
        /\ TornDown(n) =>
                \A e \in (Len(em) + 1)..Len(em') :
                    \A l \in Range(em'[e].snapshot) : subs'[l].cb # n

\* C19: once a module has been unregistered, the bus holds no listener the
\* module subscribed, and no emission that starts afterwards has such a
\* listener among those it invokes.
C19_ListenerRemoval == [][C19_Step]_vars

\* an emission with an event type that is not a string
Malformed(e) == ~IsString(em[e].type)

\* C20: an emit call whose event type is not a string is rejected, appends no
\* envelope to the history, leaves the event counter alone and invokes no
\* listener.
C20_MalformedPublish ==
    \A e \in Emissions :
        Malformed(e) =>
            /\ em[e].status \in {"pending", "rejected"}
            /\ e \notin Range(eventHistory)
            /\ em[e].log = <<>>
            /\ em[e].handled = <<>>
            /\ totalEvents = Cardinality({d \in Emissions : ~Malformed(d)})

\* C11: the history holds at most maxHistorySize envelopes, and they are the
\* most recent min(n, maxHistorySize) of the n envelopes emitted so far, in
\* emission order.
C11_BoundedHistory ==
    /\ Len(eventHistory) <= maxHistorySize
    /\ Len(eventHistory) = IF Len(em) < maxHistorySize THEN Len(em) ELSE maxHistorySize
    /\ \A i \in 1..Len(eventHistory) :
            eventHistory[i] = Len(em) - Len(eventHistory) + i

\* C11: more envelopes than the buffer holds have been emitted and the oldest
\* ones are gone
C11_Witness ==
    /\ Len(em) > maxHistorySize
    /\ Len(eventHistory) = maxHistorySize
    /\ eventHistory[1] > 1

\* C5: a once-flagged listener on an exact pattern is invoked at most once over
\* all emissions, and by every emission of its pattern that started while it
\* was registered at least once.
C5_OnceInvokedOnce ==
    \A l \in Listeners :
        subs[l].once /\ IsExact(l) =>
            /\ Invocations(l) <= 1
            /\ \A e \in Emissions :
                    Done(e) /\ l \in Range(em[e].snapshot) => Invocations(l) >= 1

\* C6: within one emission the exact listeners are invoked before the wildcard
\* listeners, the exact ones by descending priority and, among equal
\* priorities, in registration order, the wildcard ones in registration order.
C6_DeliveryOrder ==
    \A e \in Emissions :
        \A i, j \in 1..Len(em[e].log) :
            i < j =>
                LET a == subs[em[e].log[i]]
                    b == subs[em[e].log[j]]
                IN  /\ IsWildcard(a.pattern) => IsWildcard(b.pattern)
                    /\ ~IsWildcard(a.pattern) /\ ~IsWildcard(b.pattern) =>
                            \/ a.priority > b.priority
                            \/ a.priority = b.priority /\ a.id <= b.id
                    /\ IsWildcard(a.pattern) /\ IsWildcard(b.pattern) => a.id <= b.id

\* C7: an emission during which listeners were unsubscribed (and none
\* subscribed) has invoked exactly the listeners registered when it started.
C7_UnsubscribeSnapshot ==
    \A e \in Emissions :
        Done(e) /\ em[e].sawOff /\ ~em[e].sawOn => InvokedSnapshot(e)

\* C8: an emission during which listeners were subscribed (and none
\* unsubscribed) has invoked none of the new listeners and each listener
\* registered when it started exactly once.
C8_SubscribeSnapshot ==
    \A e \in Emissions :
        Done(e) /\ em[e].sawOn /\ ~em[e].sawOff => InvokedSnapshot(e)

\* C9: a listener that throws aborts nothing: emit never rejects, it returns
\* only after it has gone through all its exact listeners and all wildcard
\* listeners, the failures are collected and the results are those of the
\* listeners that succeeded.
C9_FailureIsolation ==
    \A e \in Emissions :
        /\ em[e].status # "rejected"
        /\ Done(e) =>
            /\ em[e].status = "resolved"
            /\ em[e].idx = Len(em[e].listeners)
            /\ em[e].widx = Len(em[e].wl)
            /\ em[e].results = Succeeded(em[e].log)
            /\ em[e].errors = Failed(em[e].log)

\* C9: an emission has returned in which a listener succeeded after another
\* one had failed
C9_Witness ==
    \E e \in Emissions :
        /\ Done(e)
        /\ em[e].status = "resolved"
        /\ \E i, j \in 1..Len(em[e].log) :
                /\ i < j
                /\ Throws(subs[em[e].log[i]].cb)
                /\ ~Throws(subs[em[e].log[j]].cb)
                /\ em[e].log[j] \in Range(em[e].results)

\* C10: an emission of a type other than 'system:error' with failed listeners
\* issues exactly one 'system:error' emission, carrying the collected errors,
\* when all its listeners have been invoked; an emission without failures and
\* an emission of 'system:error' issue none.
C10_Diagnostic ==
    \A e \in Emissions :
        /\ Cardinality(Diagnostics(e)) <= 1
        /\ em[e].type = SystemError => Diagnostics(e) = {}
        /\ Diagnostics(e) # {} => Done(e) /\ em[e].errors # <<>>
        /\ Done(e) /\ em[e].errors = <<>> => Diagnostics(e) = {}
        /\ Done(e) /\ em[e].errors # <<>> /\ em[e].type # SystemError =>
                \E d \in Diagnostics(e) :
                    /\ d > e
                    /\ em[d].type = SystemError
                    /\ em[d].data.originalEvent = em[e].type
                    /\ em[d].data.errors = em[e].errors

\* C10: a 'system:error' emission issued for failed listeners has itself had a
\* failing listener and has returned
C10_Witness ==
    \E d \in Emissions :
        /\ em[d].data.kind = "listener"
        /\ em[d].type = SystemError
        /\ Done(d)
        /\ em[d].errors # <<>>

====
